---------------------------- MODULE Spec2Model ----------------------------
(***************************************************************************)
(* Model of the Aquawatch ingestion worker (backend/arduino_worker.py):    *)
(* the line parser parse_sensor_line, the delivery client                  *)
(* send_sensor_data and the supervising loop main().                       *)
(*                                                                         *)
(* Text is modelled character by character: a line and a token are         *)
(* sequences of one-character strings, so that split(), lower(), the       *)
(* substring tests, replace(':', '') and float() are computed, not         *)
(* assumed.  A float is the record [kind, m, e]: kind "num" denotes the    *)
(* decimal m / 10^e, kind "nan" is Python's nan (every comparison with it  *)
(* is false) and kind "none" is Python's None.                             *)
(***************************************************************************)
EXTENDS Integers, Sequences, FiniteSets

VARIABLES
    pc,                 \* position of main() (or "call"/"parse" for a direct call)
    arduino,            \* the serial handle: "none", "open" or "closed"
    closeCalls,         \* number of calls of arduino.close()
    connAttempt,        \* `attempt` of the connection loop
    consecutive_errors, \* main()'s consecutive-failure counter
    prev_errors,        \* history: the counter before the last delivery result or fault
    lastOutcome,        \* history: "none", "success", "failure" or "fault"
    line,               \* the line handed to parse_sensor_line
    scanned,            \* ph_value / tds_value / turbidity_value after the keyword scans
    fields,             \* the same after the positional fallback, before validation
    data,               \* the value parse_sensor_line returned
    raised,             \* the exceptions that left parse_sensor_line
    retries,            \* send_sensor_data: the `retries` argument
    attempt,            \* send_sensor_data: the loop variable `attempt`
    requests,           \* send_sensor_data: number of requests.post calls
    delays,             \* send_sensor_data: time slept in time.sleep(RETRY_DELAY)
    events,             \* send_sensor_data: outcomes and sleeps of the call, in order
    sendState,          \* "idle", "attempting", "sleeping", "returned" or "raised"
    sendResult,         \* the boolean send_sensor_data returned
    stored,             \* POST /sensor: the rows of table sensor_data, in order
    request,            \* POST /sensor: the body of the last request
    response            \* POST /sensor: the status of the last response (0: none)

vars == <<pc, arduino, closeCalls, connAttempt, consecutive_errors, prev_errors,
          lastOutcome, line, scanned, fields, data, raised, retries, attempt, requests,
          delays, events, sendState, sendResult, stored, request, response>>

history == <<prev_errors, lastOutcome>>
mainVars == <<arduino, closeCalls, connAttempt, consecutive_errors, history>>
parseVars == <<line, scanned, fields, data, raised>>
sendVars == <<retries, attempt, requests, delays, events, sendState, sendResult>>
apiVars == <<stored, request, response>>

(***************************************************************************)
(* Program constants                                                       *)
(***************************************************************************)
MAX_RETRIES == 3
RETRY_DELAY == 2
connection_retries == 5
max_consecutive_errors == 10
PH_INDEX == 1
TDS_INDEX == 4
TURBIDITY_INDEX == 6
PH_MAX == 14

(***************************************************************************)
(* Bounds of the model                                                     *)
(***************************************************************************)
MaxTokens == 3        \* lines of at most this many arbitrary tokens
MaxRetriesArg == 4    \* send_sensor_data is called with retries in 0..MaxRetriesArg
MaxErrors == 12       \* the counter is followed up to this value
MaxRows == 3          \* the table sensor_data is followed up to this many rows

(***************************************************************************)
(* Characters and strings                                                  *)
(***************************************************************************)
Digits == <<"0", "1", "2", "3", "4", "5", "6", "7", "8", "9">>

IsDigit(c) == \E i \in 1..10 : Digits[i] = c

DigitVal(c) == (CHOOSE i \in 1..10 : Digits[i] = c) - 1

\* str.lower() on one character of the model's alphabet
LowerChar(c) ==
    CASE c = "H" -> "h"
      [] c = "T" -> "t"
      [] c = "D" -> "d"
      [] c = "S" -> "s"
      [] c = "P" -> "p"
      [] OTHER -> c

\* str.lower()
Lower(s) == [i \in 1..Len(s) |-> LowerChar(s[i])]

\* the test `kw in s`
Contains(s, kw) ==
    \E i \in 1..(Len(s) - Len(kw) + 1) : SubSeq(s, i, i + Len(kw) - 1) = kw

IsSpace(c) == c = " "

\* str.replace(':', '')
StripColons(s) == SelectSeq(s, LAMBDA c : c # ":")

RECURSIVE LStrip(_)
LStrip(s) == IF s # <<>> /\ IsSpace(Head(s)) THEN LStrip(Tail(s)) ELSE s

RECURSIVE RStrip(_)
RStrip(s) ==
    IF s # <<>> /\ IsSpace(s[Len(s)]) THEN RStrip(SubSeq(s, 1, Len(s) - 1)) ELSE s

\* str.strip()
Strip(s) == RStrip(LStrip(s))

\* str.split(): the maximal runs of non-space characters, in order
RECURSIVE SplitFrom(_, _, _)
SplitFrom(s, cur, acc) ==
    IF s = <<>>
    THEN IF cur = <<>> THEN acc ELSE Append(acc, cur)
    ELSE IF IsSpace(Head(s))
         THEN SplitFrom(Tail(s), <<>>, IF cur = <<>> THEN acc ELSE Append(acc, cur))
         ELSE SplitFrom(Tail(s), Append(cur, Head(s)), acc)

Split(s) == SplitFrom(s, <<>>, <<>>)

(***************************************************************************)
(* Floats                                                                  *)
(***************************************************************************)
None == [kind |-> "none", m |-> 0, e |-> 0]
NaN == [kind |-> "nan", m |-> 0, e |-> 0]
Num(m, e) == [kind |-> "num", m |-> m, e |-> e]

RECURSIVE Pow10(_)
Pow10(n) == IF n = 0 THEN 1 ELSE 10 * Pow10(n - 1)

\* a <= b and a < b on floats; false when either side is nan
FloatLe(a, b) ==
    /\ a.kind = "num"
    /\ b.kind = "num"
    /\ a.m * Pow10(b.e) <= b.m * Pow10(a.e)

FloatLt(a, b) ==
    /\ a.kind = "num"
    /\ b.kind = "num"
    /\ a.m * Pow10(b.e) < b.m * Pow10(a.e)

RECURSIVE DigitsValue(_)
DigitsValue(s) ==
    IF s = <<>> THEN 0 ELSE 10 * DigitsValue(SubSeq(s, 1, Len(s) - 1)) + DigitVal(s[Len(s)])

\* the unsigned part of a float literal: digits with at most one point
IsDecimal(s) ==
    /\ \A i \in 1..Len(s) : IsDigit(s[i]) \/ s[i] = "."
    /\ Cardinality({i \in 1..Len(s) : s[i] = "."}) <= 1
    /\ \E i \in 1..Len(s) : IsDigit(s[i])

DecimalValue(s) ==
    LET ds == SelectSeq(s, IsDigit)
        pt == {i \in 1..Len(s) : s[i] = "."}
        fr == IF pt = {} THEN 0 ELSE Len(s) - (CHOOSE i \in pt : TRUE)
    IN  Num(DigitsValue(ds), fr)

\* float(s): None stands for ValueError
ToFloat(s) ==
    LET signed == s # <<>> /\ Head(s) \in {"-", "+"}
        body == IF signed THEN Tail(s) ELSE s
        neg == signed /\ Head(s) = "-"
    IN  IF Lower(body) = <<"n", "a", "n">> THEN NaN
        ELSE IF IsDecimal(body)
             THEN LET v == DecimalValue(body)
                  IN  IF neg THEN Num(0 - v.m, v.e) ELSE v
             ELSE None


(***************************************************************************)
(* parse_sensor_line                                                       *)
(***************************************************************************)
KW_PH == <<"p", "h">>
KW_TDS == <<"t", "d", "s">>
KW_TURBIDITY == <<"t", "u", "r", "b", "i", "d", "i", "t", "y">>
KW_TURB == <<"t", "u", "r", "b">>

\* mutant: the TDS test looks for "t" alone
IsTdsToken_Loose(part) == Contains(Lower(part), <<"t">>)

IsPhToken(part) == Contains(Lower(part), KW_PH)
IsTdsToken(part) == Contains(Lower(part), KW_TDS)
IsTurbidityToken(part) ==
    Contains(Lower(part), KW_TURBIDITY) \/ Contains(Lower(part), KW_TURB)

FieldNames == {"ph", "tds", "turbidity"}

\* the keyword test of the loop for `field`
Matches(field, part) ==
    CASE field = "ph" -> IsPhToken(part)
      [] field = "tds" -> IsTdsToken(part)
      [] field = "turbidity" -> IsTurbidityToken(part)

\* float(parts[k].replace(':', '')) for the 0-based index k
TokenValue(parts, k) == ToFloat(StripColons(parts[k + 1]))

\* One `for i, part in enumerate(parts)` loop, from the 0-based index i on:
\* every token that matches and has a successor overwrites the value, unless
\* the conversion raises ValueError (which is passed over).
RECURSIVE ScanFrom(_, _, _, _)
ScanFrom(parts, field, i, value) ==
    IF i >= Len(parts) THEN value
    ELSE IF Matches(field, parts[i + 1]) /\ i + 1 < Len(parts)
         THEN LET v == TokenValue(parts, i + 1)
              IN  ScanFrom(parts, field, i + 1, IF v = None THEN value ELSE v)
         ELSE ScanFrom(parts, field, i + 1, value)

\* mutant: the loop stops at the first match that yields a value
KeywordScan_FirstWins(parts, field) ==
    LET good == {i \in 0..(Len(parts) - 2) :
                    Matches(field, parts[i + 1]) /\ TokenValue(parts, i + 1) # None}
    IN  IF good = {} THEN None
        ELSE TokenValue(parts, (CHOOSE i \in good : \A j \in good : i <= j) + 1)

KeywordScan(parts, field) == ScanFrom(parts, field, 0, None)

\* mutant: the positional token replaces a value found by the keyword scan
PositionalFallback_Overrides(parts, value, k) ==
    IF Len(parts) > k /\ TokenValue(parts, k) # None THEN TokenValue(parts, k) ELSE value

\* `if value is None and len(parts) > k: try: value = float(parts[k]...)`
PositionalFallback(parts, value, k) ==
    IF value = None /\ Len(parts) > k THEN TokenValue(parts, k) ELSE value

\* ph_value, tds_value and turbidity_value after the three keyword loops
ScanFields(parts) ==
    [field \in FieldNames |-> KeywordScan(parts, field)]

\* ph_value, tds_value and turbidity_value as they stand before validation
ExtractFields(parts) ==
    LET k == ScanFields(parts)
    IN  [ph        |-> PositionalFallback(parts, k.ph, PH_INDEX),
         tds       |-> PositionalFallback(parts, k.tds, TDS_INDEX),
         turbidity |-> PositionalFallback(parts, k.turbidity, TURBIDITY_INDEX)]

\* what parse_sensor_line returns: a SensorReadingCreate, or None
Reading(ph, tds, turbidity) ==
    [ok |-> TRUE, ph |-> ph, tds |-> tds, turbidity |-> turbidity]

Rejected == [ok |-> FALSE, ph |-> None, tds |-> None, turbidity |-> None]

NoFields == [ph |-> None, tds |-> None, turbidity |-> None]

\* mutant: a negative TDS is rejected like an out-of-range pH
Validate_HardTds(f) ==
    IF f.ph = None \/ f.tds = None \/ f.turbidity = None THEN Rejected
    ELSE IF ~(FloatLe(Num(0, 0), f.ph) /\ FloatLe(f.ph, Num(PH_MAX, 0))) THEN Rejected
    ELSE IF FloatLt(f.tds, Num(0, 0)) THEN Rejected
    ELSE Reading(f.ph, f.tds, f.turbidity)

\* the checks after extraction: completeness, then the pH range; the TDS and
\* turbidity ranges only log a warning
Validate(f) ==
    IF f.ph = None \/ f.tds = None \/ f.turbidity = None THEN Rejected
    ELSE IF ~(FloatLe(Num(0, 0), f.ph) /\ FloatLe(f.ph, Num(PH_MAX, 0))) THEN Rejected
    ELSE Reading(f.ph, f.tds, f.turbidity)

IsBlank(l) == l = <<>> \/ Len(Strip(l)) = 0

ScannedOf(l) == IF IsBlank(l) THEN NoFields ELSE ScanFields(Split(l))

FieldsOf(l) == IF IsBlank(l) THEN NoFields ELSE ExtractFields(Split(l))

parse_sensor_line(l) == IF IsBlank(l) THEN Rejected ELSE Validate(FieldsOf(l))

\* the 0-based indices of the tokens float() is applied to: the successor of
\* every keyword match, and the fixed index of a field the scan left at None
ConversionsInScan(parts) ==
    {i + 1 : i \in {j \in 0..(Len(parts) - 2) : \E field \in FieldNames :
                                                  Matches(field, parts[j + 1])}}

ConversionsInFallback(parts) ==
    {k \in {PH_INDEX, TDS_INDEX, TURBIDITY_INDEX} :
        /\ Len(parts) > k
        /\ \/ k = PH_INDEX /\ KeywordScan(parts, "ph") = None
           \/ k = TDS_INDEX /\ KeywordScan(parts, "tds") = None
           \/ k = TURBIDITY_INDEX /\ KeywordScan(parts, "turbidity") = None}

\* the exceptions raised inside the per-field try blocks: float() raises
\* ValueError; every index is guarded, so no IndexError
RaisedInFieldBlocks(parts) ==
    IF \E k \in ConversionsInScan(parts) \cup ConversionsInFallback(parts) :
           TokenValue(parts, k) = None
    THEN {"ValueError"} ELSE {}

\* `except (ValueError, IndexError): pass` of each field block
FieldHandler == {"ValueError", "IndexError"}

\* `except (IndexError, ValueError, Exception)` around the body
OuterHandlerCatches(x) == TRUE

\* mutant: the conversions are not wrapped in any handler
ParseEscapes_NoHandlers(l) == IF IsBlank(l) THEN {} ELSE RaisedInFieldBlocks(Split(l))

\* the exceptions that leave parse_sensor_line(l)
ParseEscapes(l) ==
    IF IsBlank(l) THEN {}
    ELSE {x \in RaisedInFieldBlocks(Split(l)) : x \notin FieldHandler /\ ~OuterHandlerCatches(x)}

(***************************************************************************)
(* Input lines                                                             *)
(***************************************************************************)
Tok_pH == <<"p", "H", ":">>
Tok_TDS == <<"T", "D", "S", ":">>
Tok_Turbidity == <<"T", "u", "r", "b", "i", "d", "i", "t", "y", ":">>
Tok_x == <<"x">>
Tok_7_2 == <<"7", ".", "2">>
Tok_14 == <<"1", "4">>
Tok_15 == <<"1", "5">>
Tok_neg1 == <<"-", "1">>
Tok_nan == <<"n", "a", "n">>
Tok_6c == <<"6", ":">>

KeywordTokens == {Tok_pH, Tok_TDS, Tok_Turbidity}
NumberTokens == {Tok_7_2, Tok_14, Tok_15, Tok_neg1, Tok_nan}
Vocabulary == KeywordTokens \cup NumberTokens \cup {Tok_x, Tok_6c}

RECURSIVE Join(_, _)
Join(toks, sep) ==
    IF toks = <<>> THEN <<>>
    ELSE IF Len(toks) = 1 THEN toks[1]
    ELSE toks[1] \o sep \o Join(Tail(toks), sep)

TokenSeqs(S, n) == UNION {[1..k -> S] : k \in 0..n}

\* every line of at most MaxTokens tokens, single-spaced
ShortLines == {Join(t, <<" ">>) : t \in TokenSeqs(Vocabulary, MaxTokens)}

\* the same with irregular spacing around and between the tokens
PaddedLines ==
    {<<" ">> \o Join(t, <<" ", " ">>) \o <<" ">> : t \in TokenSeqs(Vocabulary, MaxTokens)}

\* "label value label value label value"
LabelledLines ==
    {Join(<<l[1], v[1], l[2], v[2], l[3], v[3]>>, <<" ">>) :
        l \in [1..3 -> KeywordTokens \cup {Tok_x}],
        v \in [1..3 -> NumberTokens \cup {Tok_x}]}

\* lines long enough for every positional index
PositionalLines ==
    {Join(t, <<" ">>) : t \in [1..(TURBIDITY_INDEX + 1) -> {Tok_x, Tok_7_2, Tok_15, Tok_TDS}]}

ParseInputs == ShortLines \cup PaddedLines \cup LabelledLines \cup PositionalLines

(***************************************************************************)
(* A direct call of parse_sensor_line                                      *)
(***************************************************************************)
MainIdle ==
    /\ arduino = "none"
    /\ closeCalls = 0
    /\ connAttempt = 0
    /\ consecutive_errors = 0
    /\ prev_errors = 0
    /\ lastOutcome = "none"

\* the request body: three floats
Body(ph, tds, turbidity) == [ph |-> ph, tds |-> tds, turbidity |-> turbidity]

\* no request has been handled and the table is empty
ApiIdle ==
    /\ stored = <<>>
    /\ request = Body(None, None, None)
    /\ response = 0

SendIdle ==
    /\ retries = MAX_RETRIES
    /\ attempt = 0
    /\ requests = 0
    /\ delays = 0
    /\ events = <<>>
    /\ sendState = "idle"
    /\ sendResult = FALSE

InitParse ==
    /\ pc = "parse"
    /\ line \in ParseInputs
    /\ scanned = NoFields
    /\ fields = NoFields
    /\ data = Rejected
    /\ raised = {}
    /\ ApiIdle
    /\ MainIdle
    /\ SendIdle

ParseLine ==
    /\ UNCHANGED apiVars
    /\ pc = "parse"
    /\ pc' = "parsed"
    /\ scanned' = ScannedOf(line)
    /\ fields' = FieldsOf(line)
    /\ data' = parse_sensor_line(line)
    /\ raised' = ParseEscapes(line)
    /\ UNCHANGED <<line, mainVars, sendVars>>

NextParse == ParseLine

SpecParse == InitParse /\ [][NextParse]_vars

(***************************************************************************)
(* send_sensor_data                                                        *)
(*                                                                         *)
(* An attempt ends in one of four ways: "ok" (status 200), "status" (any   *)
(* other status), "fault" (a requests.exceptions.RequestException) or      *)
(* "error" (an exception of any other class raised by requests.post).      *)
(***************************************************************************)
Outcomes == {"ok", "status", "fault", "error"}

\* mutant: any response at all counts as accepted
Accepted_AnyResponse(o) == o \in {"ok", "status"}

\* `response.status_code == 200`
Accepted(o) == o = "ok"

\* the attempt raised an exception the `except` clause names
Caught(o) == o = "fault"

\* the attempt raised an exception the `except` clause does not name
Propagates(o) == o = "error"

\* mutant: the delay also follows the last attempt
SleepsAfter_AlsoLast(o, att, n) == Caught(o)

\* whether time.sleep(RETRY_DELAY) runs after an attempt that ended with o
SleepsAfter(o, att, n) == Caught(o) /\ att < n - 1

SendAttempt(o) ==
    /\ UNCHANGED apiVars
    /\ pc \in {"send", "call"}
    /\ sendState = "attempting"
    /\ attempt < retries
    /\ requests' = requests + 1
    /\ events' = Append(events, o)
    /\ IF Accepted(o)
       THEN /\ sendState' = "returned"
            /\ sendResult' = TRUE
            /\ UNCHANGED attempt
       ELSE IF Propagates(o)
       THEN /\ sendState' = "raised"
            /\ UNCHANGED <<sendResult, attempt>>
       ELSE IF SleepsAfter(o, attempt, retries)
       THEN /\ sendState' = "sleeping"
            /\ UNCHANGED <<sendResult, attempt>>
       ELSE /\ attempt' = attempt + 1
            /\ UNCHANGED <<sendState, sendResult>>
    /\ UNCHANGED <<pc, mainVars, parseVars, retries, delays>>

\* time.sleep(RETRY_DELAY) returns and the loop goes to the next attempt
SendSleepDone ==
    /\ UNCHANGED apiVars
    /\ pc \in {"send", "call"}
    /\ sendState = "sleeping"
    /\ delays' = delays + RETRY_DELAY
    /\ events' = Append(events, "sleep")
    /\ attempt' = attempt + 1
    /\ sendState' = "attempting"
    /\ UNCHANGED <<pc, mainVars, parseVars, retries, requests, sendResult>>

\* the for loop is exhausted: log the error and return False
SendExhausted ==
    /\ UNCHANGED apiVars
    /\ pc \in {"send", "call"}
    /\ sendState = "attempting"
    /\ attempt >= retries
    /\ sendState' = "returned"
    /\ sendResult' = FALSE
    /\ UNCHANGED <<pc, mainVars, parseVars, retries, attempt, requests, delays, events>>

SendStep == (\E o \in Outcomes : SendAttempt(o)) \/ SendSleepDone \/ SendExhausted

\* a direct call send_sensor_data(data, retries = n)
InitSend ==
    /\ pc = "call"
    /\ retries \in 0..MaxRetriesArg
    /\ attempt = 0
    /\ requests = 0
    /\ delays = 0
    /\ events = <<>>
    /\ sendState = "attempting"
    /\ sendResult = FALSE
    /\ line = <<>>
    /\ scanned = NoFields
    /\ fields = NoFields
    /\ data = Rejected
    /\ raised = {}
    /\ ApiIdle
    /\ MainIdle

NextSend == SendStep

SpecSend == InitSend /\ [][NextSend]_vars

(***************************************************************************)
(* main()                                                                  *)
(*                                                                         *)
(* pc: "connect"   inside serial.Serial(...) of a connection attempt       *)
(*     "connwait"  in time.sleep(2) after a failed connection attempt      *)
(*     "settle"    in time.sleep(2) after the port was opened              *)
(*     "loop"      at the top of a `while True` iteration                  *)
(*     "send"      inside send_sensor_data (see sendState)                 *)
(*     "idlewait"  in time.sleep(0.1), before the breaker check            *)
(*     "cooldown"  in time.sleep(1) of the `except Exception` handler      *)
(*     "stopped"   main() has returned or an exception has left it         *)
(***************************************************************************)
BadByte == "\\xff"

\* bytes.decode("utf-8", errors="ignore"): undecodable bytes are dropped
Decode(raw) == SelectSeq(raw, LAMBDA c : c # BadByte)

\* what the device may deliver to readline()
RawGood == Join(<<Tok_pH, Tok_7_2, Tok_TDS, Tok_15, Tok_Turbidity, Tok_7_2>>, <<" ">>)
RawBadPh == Join(<<Tok_pH, Tok_15, Tok_TDS, Tok_15, Tok_Turbidity, Tok_7_2>>, <<" ">>)
RawNegTds == Join(<<Tok_pH, Tok_7_2, Tok_TDS, Tok_neg1, Tok_Turbidity, Tok_7_2>>, <<" ">>)
RawNoise == <<BadByte>> \o Tok_x \o <<" ">>
RawBlank == <<" ", BadByte, " ">>

DeviceLines == {RawGood, RawBadPh, RawNegTds, RawNoise, RawBlank}

LoopPcs == {"loop", "send", "idlewait", "cooldown"}

Init ==
    /\ pc = "connect"
    /\ arduino = "none"
    /\ closeCalls = 0
    /\ connAttempt = 0
    /\ consecutive_errors = 0
    /\ prev_errors = 0
    /\ lastOutcome = "none"
    /\ line = <<>>
    /\ scanned = NoFields
    /\ fields = NoFields
    /\ data = Rejected
    /\ raised = {}
    /\ ApiIdle
    /\ SendIdle

\* serial.Serial(PORT, BAUD_RATE, timeout=1) returns the handle
ConnectOk ==
    /\ UNCHANGED apiVars
    /\ pc = "connect"
    /\ arduino' = "open"
    /\ pc' = "settle"
    /\ UNCHANGED <<closeCalls, connAttempt, consecutive_errors, history, parseVars,
                   sendVars>>

\* mutant: the handler of SerialException always sleeps and retries
RetriesConnect_Always(att) == TRUE

\* whether the handler of SerialException sleeps and retries (else it returns)
RetriesConnect(att) == att < connection_retries - 1

\* serial.Serial raises SerialException
ConnectFail ==
    /\ UNCHANGED apiVars
    /\ pc = "connect"
    /\ pc' = IF RetriesConnect(connAttempt) THEN "connwait" ELSE "stopped"
    /\ UNCHANGED <<mainVars, parseVars, sendVars>>

\* time.sleep(2) returns; next connection attempt
ConnectRetry ==
    /\ UNCHANGED apiVars
    /\ pc = "connwait"
    /\ connAttempt' = connAttempt + 1
    /\ pc' = "connect"
    /\ UNCHANGED <<arduino, closeCalls, consecutive_errors, history, parseVars,
                   sendVars>>

\* the settle delay is over: break, initialise the counter, enter the loop
Settled ==
    /\ UNCHANGED apiVars
    /\ pc = "settle"
    /\ consecutive_errors' = 0
    /\ pc' = "loop"
    /\ UNCHANGED <<arduino, closeCalls, connAttempt, history, parseVars, sendVars>>

\* the `finally` clause: `if arduino and arduino.is_open: arduino.close()`
HandleAfterFinally(h) == IF h = "open" THEN "closed" ELSE h
ClosesInFinally(h) == IF h = "open" THEN 1 ELSE 0

\* whether the try/finally of main() encloses the position p
InsideTry(p) == p \in LoopPcs

\* main() ends from position p: through `finally` when inside the try
Leave(p) ==
    /\ pc' = "stopped"
    /\ arduino' = IF InsideTry(p) THEN HandleAfterFinally(arduino) ELSE arduino
    /\ closeCalls' = IF InsideTry(p) THEN closeCalls + ClosesInFinally(arduino)
                     ELSE closeCalls

\* the locals of a send_sensor_data call are gone once the call has ended
SendFrameDropped ==
    /\ retries' = MAX_RETRIES
    /\ attempt' = 0
    /\ requests' = 0
    /\ delays' = 0
    /\ events' = <<>>
    /\ sendState' = "idle"
    /\ sendResult' = FALSE

\* KeyboardInterrupt, at any position
Interrupt ==
    /\ UNCHANGED apiVars
    /\ pc # "stopped"
    /\ Leave(pc)
    /\ SendFrameDropped
    /\ UNCHANGED <<connAttempt, consecutive_errors, history, parseVars>>

\* `arduino.in_waiting > 0` is false
PollIdle ==
    /\ UNCHANGED apiVars
    /\ pc = "loop"
    /\ pc' = "idlewait"
    /\ UNCHANGED <<mainVars, parseVars, sendVars>>

\* mutant: a fault is logged but not counted
CounterAfterFault_NotCounted(c) == c

\* the counter after the `except Exception` handler
CounterAfterFault(c) == c + 1

\* mutant: a rejected line is handed to the delivery client as well
StartsDelivery_Always(d) == TRUE

\* `if data is not None`
StartsDelivery(d) == d.ok

\* `arduino.in_waiting > 0`: readline, decode, strip, parse, start the delivery
ReadLine(raw) ==
    /\ UNCHANGED apiVars
    /\ pc = "loop"
    /\ consecutive_errors < MaxErrors
    /\ LET l == Strip(Decode(raw))
           d == parse_sensor_line(l)
           x == ParseEscapes(l)
       IN  /\ line' = l
           /\ IF l = <<>>
              THEN /\ pc' = "loop"                       \* `continue`
                   /\ UNCHANGED <<scanned, fields, data, raised, sendVars,
                                  consecutive_errors, history>>
              ELSE IF x # {}
              THEN /\ raised' = x                        \* `except Exception`
                   /\ consecutive_errors' = CounterAfterFault(consecutive_errors)
                   /\ prev_errors' = consecutive_errors
                   /\ lastOutcome' = "fault"
                   /\ pc' = "cooldown"
                   /\ UNCHANGED <<scanned, fields, data, sendVars>>
              ELSE /\ scanned' = ScannedOf(l)
                   /\ fields' = FieldsOf(l)
                   /\ data' = d
                   /\ raised' = {}
                   /\ UNCHANGED <<consecutive_errors, history>>
                   /\ IF StartsDelivery(d)
                      THEN /\ pc' = "send"
                           /\ retries' = MAX_RETRIES
                           /\ attempt' = 0
                           /\ requests' = 0
                           /\ delays' = 0
                           /\ events' = <<>>
                           /\ sendState' = "attempting"
                           /\ sendResult' = FALSE
                      ELSE /\ pc' = "idlewait"
                           /\ UNCHANGED sendVars
    /\ UNCHANGED <<arduino, closeCalls, connAttempt>>

\* mutant: a success leaves the counter as it is
CounterAfterDelivery_NoReset(c, sent) == IF sent THEN c ELSE c + 1

\* the counter after send_sensor_data returned `sent`
CounterAfterDelivery(c, sent) == IF sent THEN 0 ELSE c + 1

\* mutant: a Reading whose delivery failed is sent again
DeliveryDone_Resend ==
    /\ UNCHANGED apiVars
    /\ pc = "send"
    /\ sendState = "returned"
    /\ consecutive_errors' = CounterAfterDelivery(consecutive_errors, sendResult)
    /\ prev_errors' = consecutive_errors
    /\ lastOutcome' = IF sendResult THEN "success" ELSE "failure"
    /\ IF sendResult \/ consecutive_errors + 1 >= max_consecutive_errors
       THEN SendFrameDropped /\ pc' = "idlewait"
       ELSE /\ pc' = "send"
            /\ retries' = MAX_RETRIES
            /\ attempt' = 0
            /\ requests' = 0
            /\ delays' = 0
            /\ events' = <<>>
            /\ sendState' = "attempting"
            /\ sendResult' = FALSE
    /\ UNCHANGED <<arduino, closeCalls, connAttempt, parseVars>>

\* send_sensor_data has returned
DeliveryDone ==
    /\ UNCHANGED apiVars
    /\ pc = "send"
    /\ sendState = "returned"
    /\ consecutive_errors' = CounterAfterDelivery(consecutive_errors, sendResult)
    /\ prev_errors' = consecutive_errors
    /\ lastOutcome' = IF sendResult THEN "success" ELSE "failure"
    /\ SendFrameDropped
    /\ pc' = "idlewait"
    /\ UNCHANGED <<arduino, closeCalls, connAttempt, parseVars>>

\* in_waiting or readline raises: `except Exception`
IterFault ==
    /\ UNCHANGED apiVars
    /\ pc = "loop"
    /\ consecutive_errors < MaxErrors
    /\ consecutive_errors' = CounterAfterFault(consecutive_errors)
    /\ prev_errors' = consecutive_errors
    /\ lastOutcome' = "fault"
    /\ pc' = "cooldown"
    /\ UNCHANGED <<arduino, closeCalls, connAttempt, parseVars, sendVars>>

\* mutant: an exception leaving send_sensor_data is counted as a delivery
\* failure and as an iteration fault
DeliveryRaised_CountedTwice ==
    /\ UNCHANGED apiVars
    /\ pc = "send"
    /\ sendState = "raised"
    /\ consecutive_errors' = CounterAfterFault(CounterAfterDelivery(consecutive_errors, FALSE))
    /\ prev_errors' = consecutive_errors
    /\ lastOutcome' = "fault"
    /\ SendFrameDropped
    /\ pc' = "cooldown"
    /\ UNCHANGED <<arduino, closeCalls, connAttempt, parseVars>>

\* an exception left send_sensor_data: `except Exception`
DeliveryRaised ==
    /\ UNCHANGED apiVars
    /\ pc = "send"
    /\ sendState = "raised"
    /\ consecutive_errors' = CounterAfterFault(consecutive_errors)
    /\ prev_errors' = consecutive_errors
    /\ lastOutcome' = "fault"
    /\ SendFrameDropped
    /\ pc' = "cooldown"
    /\ UNCHANGED <<arduino, closeCalls, connAttempt, parseVars>>

\* time.sleep(1) of the handler returns: next iteration
CooldownDone ==
    /\ UNCHANGED apiVars
    /\ pc = "cooldown"
    /\ pc' = "loop"
    /\ UNCHANGED <<mainVars, parseVars, sendVars>>

\* `if consecutive_errors >= max_consecutive_errors: ... break`
BreakerTrips(c) == c >= max_consecutive_errors

\* time.sleep(0.1) returns, then the breaker check
EndOfIteration ==
    /\ UNCHANGED apiVars
    /\ pc = "idlewait"
    /\ IF BreakerTrips(consecutive_errors)
       THEN Leave(pc)
       ELSE /\ pc' = "loop"
            /\ UNCHANGED <<arduino, closeCalls>>
    /\ UNCHANGED <<connAttempt, consecutive_errors, history, parseVars, sendVars>>

Next ==
    \/ ConnectOk
    \/ ConnectFail
    \/ ConnectRetry
    \/ Settled
    \/ Interrupt
    \/ PollIdle
    \/ \E raw \in DeviceLines : ReadLine(raw)
    \/ SendStep
    \/ DeliveryDone
    \/ DeliveryRaised
    \/ IterFault
    \/ CooldownDone
    \/ EndOfIteration

Spec == Init /\ [][Next]_vars

(***************************************************************************)
(* Claims about main(), checked under Spec                                 *)
(***************************************************************************)

\* C1: once the counter has reached the ceiling (10) the loop is left at the
\* end of that iteration: the counter never exceeds 10, and while it is at
\* or above 10 no line is read or parsed and no delivery attempt is made.
C1_BreakerCeiling ==
    [][ /\ consecutive_errors' <= max_consecutive_errors
        /\ consecutive_errors >= max_consecutive_errors
              => ~(\E raw \in DeviceLines : ReadLine(raw)) /\ ~SendStep ]_vars

\* C2: whenever main() has stopped, a handle that was acquired has been
\* closed, and close was called exactly once (never for a handle that was
\* not acquired, never twice).
C2_HandleReleasedOnce ==
    /\ closeCalls <= 1
    /\ pc = "stopped" =>
          /\ arduino # "open"
          /\ closeCalls = (IF arduino = "none" THEN 0 ELSE 1)

\* C3: the step that takes the result of send_sensor_data sets the counter
\* to 0 on success, whatever it was, and adds exactly 1 to it on failure.
C3_CounterOnDelivery ==
    [][ pc = "send" /\ sendState = "returned" /\ pc' = "idlewait" =>
           consecutive_errors' = (IF sendResult THEN 0 ELSE consecutive_errors + 1) ]_vars

\* a delivery success has just reset the counter after 9 consecutive failures
C3_Witness ==
    /\ pc = "idlewait"
    /\ lastOutcome = "success"
    /\ prev_errors = max_consecutive_errors - 1
    /\ consecutive_errors = 0

(***************************************************************************)
(* Claims about send_sensor_data, checked under SpecSend                   *)
(***************************************************************************)
RequestEvents == SelectSeq(events, LAMBDA x : x # "sleep")

OnlyFaults == \A i \in 1..Len(RequestEvents) : RequestEvents[i] = "fault"

\* fault, sleep, fault, ..., sleep, fault: n faults with a sleep between them
FaultTrace(n) ==
    [i \in 1..(IF n = 0 THEN 0 ELSE 2 * n - 1) |-> IF i % 2 = 1 THEN "fault" ELSE "sleep"]

\* C4: when every attempt of send_sensor_data(data, retries = n) ends in a
\* network-level fault, the call issues exactly n requests, sleeps
\* RETRY_DELAY after each of them except the last (n - 1 times for n >= 1)
\* and returns False.
C4_PersistentFaultRetries ==
    OnlyFaults =>
        /\ requests <= retries
        /\ sendState # "raised"
        /\ sendState = "returned" =>
              /\ requests = retries
              /\ events = FaultTrace(retries)
              /\ delays = RETRY_DELAY * (IF retries = 0 THEN 0 ELSE retries - 1)
              /\ sendResult = FALSE

\* three faults in a row: three requests, two delays, failure
C4_Witness ==
    /\ pc = "call"
    /\ sendState = "returned"
    /\ retries = MAX_RETRIES
    /\ events = <<"fault", "sleep", "fault", "sleep", "fault">>
    /\ delays = 2 * RETRY_DELAY
    /\ sendResult = FALSE

\* C5: every failed attempt that is followed by another request, whether it
\* failed with a network fault or with a non-200 status, is followed by the
\* delay before that request.
C5_DelayAfterEveryFailure ==
    \A i \in 1..(Len(events) - 1) :
        events[i] \in {"status", "fault"} => events[i + 1] = "sleep"

FirstOk == CHOOSE i \in 1..Len(RequestEvents) :
               /\ RequestEvents[i] = "ok"
               /\ \A j \in 1..(i - 1) : RequestEvents[j] # "ok"

\* C6: send_sensor_data(data, retries = n) returns True iff one of its
\* attempts received status 200; no request follows the first 200, so the
\* number of requests is the index of the first accepted attempt, or n when
\* no attempt is accepted.
C6_SuccessIffAccepted ==
    /\ requests = Len(RequestEvents)
    /\ requests <= retries
    /\ \A i \in 1..(Len(events) - 1) : events[i] # "ok"
    /\ sendState = "returned" =>
          /\ sendResult <=> (\E i \in 1..Len(events) : events[i] = "ok")
          /\ requests = (IF \E i \in 1..Len(events) : events[i] = "ok"
                         THEN FirstOk ELSE retries)

\* accepted at the second of three attempts, after a rejected status
C6_Witness ==
    /\ pc = "call"
    /\ sendState = "returned"
    /\ retries = MAX_RETRIES
    /\ events = <<"status", "ok">>
    /\ requests = 2
    /\ sendResult = TRUE

\* C7: no exception leaves send_sensor_data, whatever an attempt raises.
C7_NeverRaises == sendState # "raised"

(***************************************************************************)
(* Claims about parse_sensor_line, checked under SpecParse                 *)
(***************************************************************************)
NotBlank == \E i \in 1..Len(line) : line[i] # " "

\* 0 <= v <= 14 for a float v
WithinPhRange(v) == v.kind = "num" /\ 0 <= v.m /\ v.m <= PH_MAX * Pow10(v.e)

Negative(v) == v.kind = "num" /\ v.m < 0

\* C8: a line is accepted iff it is not blank, all three fields are resolved
\* after the keyword scan and the positional fallback, and the pH is within
\* [0, 14]; the TDS and turbidity values play no part in the decision, and
\* an accepted Reading carries the three resolved values.
C8_AcceptanceRule ==
    pc = "parsed" =>
        /\ data.ok <=> /\ NotBlank
                       /\ fields.ph # None
                       /\ fields.tds # None
                       /\ fields.turbidity # None
                       /\ WithinPhRange(fields.ph)
        /\ data.ok => /\ data.ph = fields.ph /\ data.ph # None
                      /\ data.tds = fields.tds /\ data.tds # None
                      /\ data.turbidity = fields.turbidity /\ data.turbidity # None

\* a line with a negative TDS and a negative turbidity has been accepted
C8_Witness ==
    /\ pc = "parsed"
    /\ data.ok
    /\ Negative(data.tds)
    /\ Negative(data.turbidity)

\* the number a numeric token of the vocabulary denotes
Denotes(tok) ==
    CASE tok = Tok_7_2 -> Num(72, 1)
      [] tok = Tok_14 -> Num(14, 0)
      [] tok = Tok_15 -> Num(15, 0)
      [] tok = Tok_neg1 -> Num(-1, 0)
      [] tok = Tok_nan -> NaN

WellFormed(X, Y, Z) == Join(<<Tok_pH, X, Tok_TDS, Y, Tok_Turbidity, Z>>, <<" ">>)

\* the lines "pH: X TDS: Y Turbidity: Z" with X in [0, 14], Y >= 0, Z >= 0,
\* each with the Reading it stands for
WellFormedLines ==
    {[text |-> WellFormed(X, Y, Z),
      reading |-> Reading(Denotes(X), Denotes(Y), Denotes(Z))] :
        X \in {t \in NumberTokens : WithinPhRange(Denotes(t))},
        Y \in {t \in NumberTokens : Denotes(t).kind = "num" /\ Denotes(t).m >= 0},
        Z \in {t \in NumberTokens : Denotes(t).kind = "num" /\ Denotes(t).m >= 0}}

\* C9: a well-formed line "pH: X TDS: Y Turbidity: Z" with X in [0, 14],
\* Y >= 0 and Z >= 0 is parsed to the Reading (X, Y, Z).
C9_WellFormedLine ==
    pc = "parsed" => \A w \in WellFormedLines : line = w.text => data = w.reading

\* "pH: 14 TDS: 15 Turbidity: 7.2" has been parsed to (14, 15, 7.2)
C9_Witness ==
    /\ pc = "parsed"
    /\ line = WellFormed(Tok_14, Tok_15, Tok_7_2)
    /\ data = Reading(Num(14, 0), Num(15, 0), Num(72, 1))

\* 0-based indices of the tokens that contain the keyword of `field`
Hits(parts, field) == {i \in 0..(Len(parts) - 1) : Matches(field, parts[i + 1])}

\* those of them whose successor exists and converts to a float
GoodHits(parts, field) ==
    {i \in Hits(parts, field) : i + 1 < Len(parts) /\ TokenValue(parts, i + 1) # None}

Greatest(S) == CHOOSE i \in S : \A j \in S : j <= i

\* C10 as claimed: when several tokens contain a field's keyword, the scan
\* leaves the field with what the token after the LAST matching token gives.
C10_LastMatchWins ==
    pc = "parsed" /\ NotBlank =>
        \A field \in FieldNames :
            LET parts == Split(line)
                h == Hits(parts, field)
            IN  Cardinality(h) >= 2 =>
                    scanned[field] = (IF Greatest(h) + 1 < Len(parts)
                                      THEN TokenValue(parts, Greatest(h) + 1)
                                      ELSE None)

\* C10 as amended: the scan leaves the field with the value of the token
\* after the last matching token that has a successor converting to a
\* float; matches without such a successor change nothing.
C10_LastConvertibleMatchWins ==
    pc = "parsed" /\ NotBlank =>
        \A field \in FieldNames :
            LET parts == Split(line)
                g == GoodHits(parts, field)
            IN  scanned[field] = (IF g = {} THEN None
                                  ELSE TokenValue(parts, Greatest(g) + 1))

\* "pH: 7.2 pH: 14 x x": two matches with different values, the second kept
C10_Witness ==
    /\ pc = "parsed"
    /\ line = Join(<<Tok_pH, Tok_7_2, Tok_pH, Tok_14, Tok_x, Tok_x>>, <<" ">>)
    /\ scanned.ph = Num(14, 0)

\* the 0-based token index of the positional fallback of `field`
FallbackIndex(field) ==
    CASE field = "ph" -> PH_INDEX
      [] field = "tds" -> TDS_INDEX
      [] field = "turbidity" -> TURBIDITY_INDEX

\* C11: for each field on its own, the value before validation is the value
\* of the keyword scan when the scan produced one; only when it produced
\* none is it taken from the token at the field's fixed index (1, 4, 6), if
\* the line has that token.
C11_FallbackOnlyWhenUnscanned ==
    pc = "parsed" /\ NotBlank =>
        \A field \in FieldNames :
            LET parts == Split(line)
                k == FallbackIndex(field)
            IN  fields[field] =
                    (IF scanned[field] # None THEN scanned[field]
                     ELSE IF Len(parts) > k THEN ToFloat(StripColons(parts[k + 1]))
                     ELSE None)

\* "x 7.2 TDS: 15 7.2 x 7.2": TDS keeps the scanned 15 although token 4 is
\* 7.2, while pH and turbidity come from tokens 1 and 6
C11_Witness ==
    /\ pc = "parsed"
    /\ line = Join(<<Tok_x, Tok_7_2, Tok_TDS, Tok_15, Tok_7_2, Tok_x, Tok_7_2>>, <<" ">>)
    /\ scanned = [ph |-> None, tds |-> Num(15, 0), turbidity |-> None]
    /\ fields = [ph |-> Num(72, 1), tds |-> Num(15, 0), turbidity |-> Num(72, 1)]

\* C12: parse_sensor_line is total: whatever the line, no exception leaves
\* the call, and it returns None or a Reading with three floats.
C12_ParserTotal ==
    pc = "parsed" =>
        /\ raised = {}
        /\ \/ data = Rejected
           \/ /\ data.ok
              /\ \A field \in FieldNames : data[field].kind \in {"num", "nan"}

\* "x pH:" has been rejected: the keyword is the last token and float("x")
\* raised ValueError in the fallback, which did not leave the call
C12_Witness ==
    /\ pc = "parsed"
    /\ line = Join(<<Tok_x, Tok_pH>>, <<" ">>)
    /\ RaisedInFieldBlocks(Split(line)) = {"ValueError"}
    /\ raised = {}
    /\ data = Rejected

\* --------------------------------------------------------------------------
\* POST /sensor (main.py create_sensor, crud.py create_sensor_reading, db.py)
\* --------------------------------------------------------------------------

\* the floats a request body carries in the model
BodyPh == {Num(0, 0), Num(14, 0), Num(15, 0), Num(-1, 0), NaN}
BodyLevels == {Num(0, 0), Num(-1, 0), NaN}
Bodies == {Body(ph, tds, turbidity) : ph \in BodyPh, tds \in BodyLevels, turbidity \in BodyLevels}

\* mutant: the endpoint does not look at the TDS value
RangeChecksPass_NoTds(d) ==
    /\ FloatLe(Num(0, 0), d.ph) /\ FloatLe(d.ph, Num(PH_MAX, 0))
    /\ ~FloatLt(d.turbidity, Num(0, 0))

\* none of the three `raise HTTPException(status_code=400, ...)` is taken:
\* not (0 <= ph <= 14), tds < 0, turbidity < 0
RangeChecksPass(d) ==
    /\ FloatLe(Num(0, 0), d.ph) /\ FloatLe(d.ph, Num(PH_MAX, 0))
    /\ ~FloatLt(d.tds, Num(0, 0))
    /\ ~FloatLt(d.turbidity, Num(0, 0))

\* sqlite3 binds a NaN as NULL
BoundAsNull(v) == v = NaN

\* the column constraints of sensor_data: REAL NOT NULL CHECK(...)
ConstraintsHold(d) ==
    /\ ~BoundAsNull(d.ph) /\ FloatLe(Num(0, 0), d.ph) /\ FloatLe(d.ph, Num(PH_MAX, 0))
    /\ ~BoundAsNull(d.tds) /\ FloatLe(Num(0, 0), d.tds)
    /\ ~BoundAsNull(d.turbidity) /\ FloatLe(Num(0, 0), d.turbidity)

\* create_sensor_reading: the INSERT commits, or raises and rolls back
InsertCommits(d) == ConstraintsHold(d)

\* the status of the response to body d
StatusOf(d) ==
    IF ~RangeChecksPass(d) THEN 400
    ELSE IF InsertCommits(d) THEN 200
    ELSE 500                                  \* `except Exception` -> 500

\* one request POST /sensor with body d
create_sensor(d) ==
    /\ pc = "api"
    /\ Len(stored) < MaxRows
    /\ request' = d
    /\ response' = StatusOf(d)
    /\ stored' = IF StatusOf(d) = 200 THEN Append(stored, d) ELSE stored
    /\ UNCHANGED <<pc, mainVars, parseVars, sendVars>>

InitApi ==
    /\ pc = "api"
    /\ line = <<>>
    /\ scanned = NoFields
    /\ fields = NoFields
    /\ data = Rejected
    /\ raised = {}
    /\ ApiIdle
    /\ MainIdle
    /\ SendIdle

NextApi == \E d \in Bodies : create_sensor(d)

SpecApi == InitApi /\ [][NextApi]_vars

\* x >= 0 for a float x
NonNegative(v) == v.kind = "num" /\ v.m >= 0

\* C13: POST /sensor stores exactly one row and answers success when ph is
\* in [0,14] and tds and turbidity are non-negative; otherwise it answers 400
\* and the stored readings are unchanged; every stored row is within range.
C13_EndpointContract ==
    [][pc = "api" =>
        /\ IF WithinPhRange(request'.ph) /\ NonNegative(request'.tds)
                                         /\ NonNegative(request'.turbidity)
           THEN stored' = Append(stored, request') /\ response' = 200
           ELSE stored' = stored /\ response' = 400
        /\ \A i \in 1..Len(stored') :
              /\ WithinPhRange(stored'[i].ph)
              /\ NonNegative(stored'[i].tds)
              /\ NonNegative(stored'[i].turbidity)]_vars

\* --------------------------------------------------------------------------
\* main() against a collaborator that fails in every iteration
\* --------------------------------------------------------------------------

\* in_waiting or readline raises once more when the counter is no longer
\* followed: BreakerTrips is the same for every value from MaxErrors on
IterFaultBeyond ==
    /\ UNCHANGED apiVars
    /\ pc = "loop"
    /\ consecutive_errors = MaxErrors
    /\ prev_errors' = consecutive_errors
    /\ lastOutcome' = "fault"
    /\ pc' = "cooldown"
    /\ UNCHANGED <<arduino, closeCalls, connAttempt, consecutive_errors, parseVars,
                   sendVars>>

\* the lines the parser accepts, and the outcomes of a request that fail
AcceptedLines == {raw \in DeviceLines : parse_sensor_line(Strip(Decode(raw))).ok}
FailingOutcomes == {o \in Outcomes : ~Accepted(o)}

\* the steps of a failing run other than the arrival of a line
PersistStep ==
    \/ ConnectOk
    \/ Settled
    \/ \E o \in FailingOutcomes : SendAttempt(o)
    \/ SendSleepDone
    \/ SendExhausted
    \/ DeliveryDone
    \/ DeliveryRaised
    \/ IterFault
    \/ IterFaultBeyond
    \/ CooldownDone
    \/ EndOfIteration

\* every iteration is a delivery failure or a per-iteration fault; no interrupt
NextPersist ==
    \/ PersistStep
    \/ \E raw \in AcceptedLines : ReadLine(raw)

\* the process keeps running: wherever a line can arrive the read can raise
\* instead, so a step of PersistStep is possible until main() has ended, and
\* it is not postponed forever
SpecPersist == Init /\ [][NextPersist]_vars /\ WF_vars(PersistStep)

\* C14: when every loop iteration fails (delivery failure or per-iteration
\* fault), the worker eventually trips the breaker and leaves the loop.
C14_BreakerEventuallyTrips == <>(pc = "stopped")

\* C15: a fault inside one loop iteration (not the interrupt) increments the
\* counter by exactly 1 and is followed by the cooldown pause, after which the
\* worker starts the next iteration; the serial handle stays open throughout.
C15_FaultIsSupervised ==
    [][/\ (IterFault \/ DeliveryRaised) =>
            /\ consecutive_errors' = consecutive_errors + 1
            /\ pc' = "cooldown"
            /\ arduino = "open" /\ arduino' = "open"
            /\ closeCalls' = closeCalls
       /\ (pc = "cooldown" /\ ~Interrupt) =>
            /\ pc' = "loop"
            /\ consecutive_errors' = consecutive_errors
            /\ arduino' = "open"
            /\ closeCalls' = closeCalls]_vars

\* the cooldown is over after a fault that followed earlier failures: the
\* worker is back at the top of the loop with the handle open
C15_Witness ==
    /\ pc = "loop"
    /\ lastOutcome = "fault"
    /\ prev_errors > 0
    /\ consecutive_errors = prev_errors + 1
    /\ arduino = "open"
    /\ closeCalls = 0

\* the device lines that are not empty after strip and that the parser rejects
RejectedLines ==
    {raw \in DeviceLines : /\ Strip(Decode(raw)) # <<>>
                           /\ ~parse_sensor_line(Strip(Decode(raw))).ok}

\* C16: reading a line the parser rejects leaves the counter unchanged and
\* starts no delivery; the counter is still the same when the iteration ends,
\* so rejected lines between deliveries neither increment nor reset it.
C16_RejectedLineNoEffect ==
    [][/\ (pc = "loop" /\ \E raw \in RejectedLines : ReadLine(raw)) =>
            /\ consecutive_errors' = consecutive_errors
            /\ UNCHANGED history
            /\ pc' = "idlewait"
            /\ sendState' = "idle" /\ requests' = 0 /\ events' = <<>>
       /\ pc = "idlewait" => consecutive_errors' = consecutive_errors]_vars

\* a rejected line has been read after a failed delivery: the counter still
\* holds the failure and no call has been started
C16_Witness ==
    /\ pc = "idlewait"
    /\ line = Strip(Decode(RawBadPh))
    /\ data = Rejected
    /\ lastOutcome = "failure"
    /\ consecutive_errors = prev_errors + 1
    /\ sendState = "idle"

\* C17: main() opens the port at most connection_retries (5) times and waits
\* only between failed attempts, not after the last; when all fail it ends
\* without entering the loop (no line read, parsed or delivered); the loop
\* runs only with an acquired handle.
C17_StartupAttempts ==
    /\ connAttempt <= connection_retries - 1
    /\ pc = "connwait" => connAttempt < connection_retries - 1
    /\ pc \in LoopPcs => arduino = "open"
    /\ arduino = "none" =>
          /\ pc \in {"connect", "connwait", "stopped"}
          /\ line = <<>> /\ data = Rejected /\ scanned = NoFields
          /\ lastOutcome = "none"
          /\ sendState = "idle" /\ requests = 0
          /\ closeCalls = 0

\* main() has ended in the fifth attempt without a handle
C17_Witness ==
    /\ pc = "stopped"
    /\ arduino = "none"
    /\ connAttempt = connection_retries - 1

\* a call of send_sensor_data begins in this step
CallStarts ==
    /\ sendState' = "attempting" /\ attempt' = 0 /\ requests' = 0
    /\ sendState # "attempting" \/ attempt # 0 \/ requests # 0

\* C18: every call of send_sensor_data begins in the step that read and
\* parsed a line, with the Reading of that line, so a line leads to at most
\* one call; when the call has ended (also after retry exhaustion) its
\* Reading is dropped and the worker goes on to the idle wait without a call.
C18_OneCallPerLine ==
    [][/\ CallStarts =>
            /\ pc = "loop" /\ pc' = "send"
            /\ line' # <<>>
            /\ data' = parse_sensor_line(line') /\ data'.ok
       /\ (pc = "send" /\ pc' # "send") =>
            /\ sendState' = "idle" /\ requests' = 0 /\ events' = <<>>
            /\ pc' \in {"idlewait", "cooldown", "stopped"}]_vars

\* the delivery of a Reading has failed after three requests; the worker is
\* in the idle wait and no call is in progress
C18_Witness ==
    /\ pc = "idlewait"
    /\ lastOutcome = "failure"
    /\ data.ok
    /\ data = parse_sensor_line(line)
    /\ sendState = "idle"
    /\ requests = 0

\* the device lines that are empty after decode and strip
EmptyLines == {raw \in DeviceLines : Strip(Decode(raw)) = <<>>}

\* C19: reading a line that is empty after decoding and stripping has the
\* effect of `no input pending`: the iteration goes to the idle wait (and
\* from there to the breaker check) with the counter unchanged.
C19_EmptyLineLikeNoInput ==
    [][(pc = "loop" /\ \E raw \in EmptyLines : ReadLine(raw)) =>
            /\ pc' = "idlewait"
            /\ consecutive_errors' = consecutive_errors]_vars

\* the request body send_sensor_data posts for a Reading
BodyOf(d) == Body(d.ph, d.tds, d.turbidity)

\* C20: every Reading the parser accepts passes the range validation of
\* POST /sensor, so it is never answered with status 400.
C20_AcceptedPassesEndpoint ==
    (pc = "parsed" /\ data.ok) =>
        /\ RangeChecksPass(BodyOf(data))
        /\ StatusOf(BodyOf(data)) # 400

\* C20, amended: an accepted Reading always passes the endpoint's pH check;
\* it fails the range validation, and is answered 400, exactly when its TDS
\* or its turbidity is negative.
C20_AcceptedFailsOnlyOnNegativeLevels ==
    (pc = "parsed" /\ data.ok) =>
        /\ WithinPhRange(data.ph)
        /\ ~RangeChecksPass(BodyOf(data)) <=>
              (Negative(data.tds) \/ Negative(data.turbidity))
        /\ StatusOf(BodyOf(data)) = 400 <=>
              (Negative(data.tds) \/ Negative(data.turbidity))

\* an accepted Reading with a negative TDS only: the endpoint answers 400
C20_Witness ==
    /\ pc = "parsed"
    /\ data.ok
    /\ Negative(data.tds)
    /\ ~Negative(data.turbidity)
    /\ StatusOf(BodyOf(data)) = 400

\* C21: the counter is a non-negative integer, and one loop iteration changes
\* it in exactly one way: not at all, back to 0, or up by exactly 1. The
\* counter is written only by the step that ends the work of an iteration
\* (from reading or sending to the idle wait or the cooldown), and from the
\* idle wait or the cooldown the iteration is over without another write.
C21_CounterStep ==
    [][/\ consecutive_errors \in Nat
       /\ consecutive_errors' \in {consecutive_errors, 0, consecutive_errors + 1}
       /\ consecutive_errors' # consecutive_errors =>
             /\ pc \in {"loop", "send"}
             /\ pc' \in {"idlewait", "cooldown"}
       /\ pc \in {"idlewait", "cooldown"} =>
             /\ pc' \in {pc, "loop", "stopped"}
             /\ consecutive_errors' = consecutive_errors]_vars

\* an iteration that ended in a fault has taken the counter from 1 to 2,
\* after an iteration that had counted a delivery failure or a fault
C21_Witness ==
    /\ pc = "cooldown"
    /\ lastOutcome = "fault"
    /\ prev_errors = 1
    /\ consecutive_errors = 2

=============================================================================
